---- MODULE Spec2Model ----
(***************************************************************************)
(* A model of AudioSystem (src/audiosystem.js): the singleton audio        *)
(* context, the master gain, the asynchronous sound loader, and the        *)
(* play / stop / ended life cycle of sound instances.                      *)
(*                                                                         *)
(* Objects with identity are numbered: a Sound object is an index into     *)
(* sobjs, a sound instance an index into insts, 0 stands for null or       *)
(* undefined.  A tag is a pair <<kind, n>>: <<"null",0>>, a string         *)
(* <<"str",n>>, or the instance object <<"obj",i>> that play() returned.   *)
(***************************************************************************)
EXTENDS Integers, Sequences, FiniteSets, TLC

\* ------------------------------------------------------------ bounds
MaxInst == 3      \* instances created in one behaviour
MaxLoads == 2     \* asyncLoadSounds calls in one behaviour of SpecLoad
OneLoad == 1      \* asyncLoadSounds calls in one behaviour of the other specifications
MaxCap == 2       \* largest maxSources of a definition
MaxTime == 1      \* ac.currentTime runs 0..MaxTime
MaxFade == 1      \* longest fade, in seconds
MaxVol == 2       \* largest global volume
MaxPending == 2   \* ac.suspend() calls pending at once
MaxResumes == 2   \* ac.resume() calls in one behaviour

Names == {"a", "b"}
TagNull == <<"null", 0>>
StrTags == {<<"str", 1>>, <<"str", 2>>}
PlayTags == {TagNull} \cup StrTags
Fades == 0..MaxFade
Volumes == 0..MaxVol
Callbacks == {"none", "returns", "throws"}
AcStates == {"suspended", "running"}
Reentrant == {"plays", "stops"}

VARIABLES
    ac,              \* #ac: 0 = null, 1 = new AudioContext(), 2 = an injected one
    gainValue,       \* #gain.gain.value
    gainConnected,   \* #gainConnected: "null", "false", "true"
    gainWired,       \* whether the #gain node is connected to the destination
    volume,          \* #volume
    sounds,          \* #sounds: name -> Sound object (0 = undefined)
    sobjs,           \* the Sound objects ever stored
    insts,           \* the instances ever created
    soundInstances,  \* #soundInstances
    loads,           \* the asyncLoadSounds calls: sub-load stages and promise
    now,             \* ac.currentTime
    call,            \* the last public call and its outcome (or an event)
    acState,         \* ac.state: "none" while there is no context
    acResuming,      \* #acResuming: "null", "false", "true"
    hidden,          \* document.hidden
    loaded,          \* whether window 'load' has run #handleLoad
    resumes,         \* ac.resume() promises not yet settled
    suspends,        \* ac.suspend() promises not yet settled
    issued           \* ac.resume() calls made so far

vars == <<ac, gainValue, gainConnected, gainWired, volume, sounds, sobjs,
          insts, soundInstances, loads, now, call,
          acState, acResuming, hidden, loaded, resumes, suspends, issued>>

audioVars == <<gainValue, gainConnected, gainWired, volume>>
tableVars == <<sounds, sobjs>>
instVars == <<insts, soundInstances>>
lifeVars == <<acState, acResuming, hidden, loaded, resumes, suspends, issued>>

\* ------------------------------------------------------------ helpers
Remove(s, x) == SelectSeq(s, LAMBDA y : y # x)
Contains(s, x) == \E k \in 1..Len(s) : s[k] = x

NoCall == [op |-> "event", name |-> "", tag |-> TagNull, fade |-> 0,
           stopOldest |-> FALSE, vol |-> 0, ret |-> "", inst |-> 0, ctx |-> 0]
Called(op, ret) == [NoCall EXCEPT !.op = op, !.ret = ret]

ErrNotInit == "Call .createAudioContext first"
ErrCreated == "AudioContext already created"
ErrNoSound == "Sound does not exist"

\* `${soundDirectory}/${info.path}`, the cache-busting suffix being off
Url(path) == <<"./sounds", path>>
PathOf(name) == <<name, "wav">>
ErrLoad(url) == <<"Error loading sound file", url>>

Init ==
    /\ ac = 0
    /\ gainValue = 0
    /\ gainConnected = "null"
    /\ gainWired = FALSE
    /\ volume = 1
    /\ sounds = [n \in Names |-> 0]
    /\ sobjs = <<>>
    /\ insts = <<>>
    /\ soundInstances = <<>>
    /\ loads = <<>>
    /\ now = 0
    /\ call = NoCall
    /\ acState = "none"
    /\ acResuming = "null"
    /\ hidden = FALSE
    /\ loaded = FALSE
    /\ resumes = 0
    /\ suspends = 0
    /\ issued = 0

\* ------------------------------------------------------------ context
GetAudioContextFails == ac = 0

GetAudioContext ==
    /\ call' = IF GetAudioContextFails
               THEN Called("getAudioContext", ErrNotInit)
               ELSE [Called("getAudioContext", "ok") EXCEPT !.ctx = ac]
    /\ UNCHANGED <<ac, audioVars, tableVars, instVars, loads, now, lifeVars>>

IsAudioContextRunning ==
    /\ call' = Called("isAudioContextRunning",
                      IF GetAudioContextFails THEN ErrNotInit ELSE "ok")
    /\ UNCHANGED <<ac, audioVars, tableVars, instVars, loads, now, lifeVars>>

\* a disconnect test that keeps a silent gain connected
DisconnectsBelowZero(v, connected) == v < 0 /\ connected = "true"

\* the connect/disconnect branch of setGlobalVolume
Disconnects(v, connected) == v <= 0 /\ connected = "true"
Connects(v, connected) == v > 0 /\ connected # "true"

\* the body of setGlobalVolume once the context exists
ApplyVolume(v, connected) ==
    /\ gainValue' = v
    /\ IF Disconnects(v, connected)
       THEN gainWired' = FALSE /\ gainConnected' = "false"
       ELSE IF Connects(v, connected)
       THEN gainWired' = TRUE /\ gainConnected' = "true"
       ELSE gainWired' = gainWired /\ gainConnected' = connected

SetGlobalVolume(v) ==
    /\ volume' = v
    /\ IF GetAudioContextFails
       THEN /\ call' = [Called("setGlobalVolume", ErrNotInit) EXCEPT !.vol = v]
            /\ UNCHANGED <<gainValue, gainConnected, gainWired>>
       ELSE /\ call' = [Called("setGlobalVolume", "ok") EXCEPT !.vol = v]
            /\ ApplyVolume(v, gainConnected)
    /\ UNCHANGED <<ac, tableVars, instVars, loads, now, lifeVars>>

\* a createAudioContext without its guard
NeverCreated == FALSE

\* the guard of createAudioContext
AlreadyCreated == ac # 0

\* st is the state the new or the injected context is in
CreateAudioContext(given, st) ==
    IF AlreadyCreated
    THEN /\ call' = Called("createAudioContext", ErrCreated)
         /\ UNCHANGED <<ac, audioVars, tableVars, instVars, loads, now, lifeVars>>
    ELSE /\ ac' = (IF given = 0 THEN 1 ELSE given)
         /\ acState' = st
         /\ acResuming' = "false"
         /\ volume' = volume
         /\ ApplyVolume(volume, "false")
         /\ call' = Called("createAudioContext", "ok")
         /\ UNCHANGED <<tableVars, instVars, loads, now,
                        hidden, loaded, resumes, suspends, issued>>

\* ------------------------------------------------------------ life cycle
\* a trigger that resumes whatever the in-flight flag says
MayResumeUnflagged == acState = "suspended"

\* the test both triggers make before they resume the context
MayResume == acState = "suspended" /\ acResuming # "true"

\* #acResuming = true; ac.resume().finally(...)
IssueResume ==
    /\ issued < MaxResumes
    /\ acResuming' = "true"
    /\ resumes' = resumes + 1
    /\ issued' = issued + 1

\* window 'load': #handleLoad registers userGesture for click, touchend, keydown
HandleLoad ==
    /\ ~loaded
    /\ loaded' = TRUE
    /\ call' = Called("load", "ok")
    /\ UNCHANGED <<ac, audioVars, tableVars, instVars, loads, now,
                   acState, acResuming, hidden, resumes, suspends, issued>>

\* document 'visibilitychange' with suspendInBackground on: the listener reads
\* the context through getAudioContext(), which throws while there is none
VisibilityChange ==
    /\ hidden' = ~hidden
    /\ IF GetAudioContextFails
       THEN /\ call' = Called("visibilitychange", ErrNotInit)
            /\ UNCHANGED <<acResuming, resumes, suspends, issued>>
       ELSE /\ call' = Called("visibilitychange", "ok")
            /\ IF hidden'
               THEN IF acState = "running"
                    THEN /\ suspends < MaxPending
                         /\ suspends' = suspends + 1
                         /\ UNCHANGED <<acResuming, resumes, issued>>
                    ELSE UNCHANGED <<acResuming, resumes, suspends, issued>>
               ELSE IF MayResume
                    THEN IssueResume /\ UNCHANGED suspends
                    ELSE UNCHANGED <<acResuming, resumes, suspends, issued>>
    /\ UNCHANGED <<ac, audioVars, tableVars, instVars, loads, now, acState, loaded>>

\* a click, touchend or keydown: userGesture runs once 'load' has registered it
UserGesture ==
    /\ call' = Called("gesture", "ok")
    /\ IF loaded /\ ac # 0 /\ MayResume
       THEN IssueResume /\ UNCHANGED suspends
       ELSE UNCHANGED <<acResuming, resumes, suspends, issued>>
    /\ UNCHANGED <<ac, audioVars, tableVars, instVars, loads, now,
                   acState, hidden, loaded>>

\* the promise of ac.resume() settles; .finally clears the flag either way
ResumeSettles(ok) ==
    /\ resumes > 0
    /\ resumes' = resumes - 1
    /\ acState' = IF ok THEN "running" ELSE acState
    /\ acResuming' = "false"
    /\ call' = NoCall
    /\ UNCHANGED <<ac, audioVars, tableVars, instVars, loads, now,
                   hidden, loaded, suspends, issued>>

\* the promise of ac.suspend() settles
SuspendSettles ==
    /\ suspends > 0
    /\ suspends' = suspends - 1
    /\ acState' = "suspended"
    /\ call' = NoCall
    /\ UNCHANGED <<ac, audioVars, tableVars, instVars, loads, now,
                   acResuming, hidden, loaded, resumes, issued>>

\* ------------------------------------------------------------ loader
Def(name, cap) == [path |-> PathOf(name), maxSources |-> cap, baseVolume |-> 1]
DefChoices == {[n \in S |-> Def(n, c)] : S \in {{"a"}, {"a", "b"}}, c \in 0..MaxCap}

\* the Sound object a finished sub-load stores
NewSound(name, info) ==
    [name |-> name, maxSources |-> info.maxSources,
     baseVolume |-> info.baseVolume, instances |-> <<>>]

\* a Promise.race in the place of Promise.all
AnyFulfilled(stage) == \E n \in DOMAIN stage : stage[n] = "stored"

\* Promise.all: fulfilled once every element is, rejected by the first rejection
AllFulfilled(stage) == \A n \in DOMAIN stage : stage[n] = "stored"

AsyncLoadSounds(defs) ==
    IF GetAudioContextFails
    THEN /\ call' = Called("asyncLoadSounds", ErrNotInit)
         /\ UNCHANGED <<ac, audioVars, tableVars, instVars, loads, now, lifeVars>>
    ELSE /\ loads' = Append(loads, [defs |-> defs,
                                    stage |-> [n \in DOMAIN defs |-> "fetch"],
                                    obj |-> [n \in DOMAIN defs |-> 0],
                                    promise |-> "pending",
                                    err |-> <<>>])
         /\ call' = Called("asyncLoadSounds", "promise")
         /\ UNCHANGED <<ac, audioVars, tableVars, instVars, now, lifeVars>>

\* fetch answered with response.ok
FetchOk(l, n) ==
    /\ loads[l].stage[n] = "fetch"
    /\ loads' = [loads EXCEPT ![l].stage[n] = "decode"]
    /\ call' = NoCall
    /\ UNCHANGED <<ac, audioVars, tableVars, instVars, now, lifeVars>>

\* a Promise.allSettled in the place of Promise.all: the failure is reported
\* once no sub-load is pending any more
SubLoadFailsSettled(l, n) ==
    /\ loads' = [loads EXCEPT
                   ![l].stage[n] = "failed",
                   ![l].promise =
                       IF @ = "pending"
                          /\ \A m \in DOMAIN loads[l].defs \ {n} :
                                loads[l].stage[m] \in {"stored", "failed"}
                       THEN "rejected" ELSE @,
                   ![l].err = IF loads[l].promise = "pending"
                              THEN ErrLoad(Url(loads[l].defs[n].path)) ELSE @]
    /\ call' = NoCall
    /\ UNCHANGED <<ac, audioVars, tableVars, instVars, now, lifeVars>>

\* the .catch of a sub-load: rethrows with the URL, which rejects Promise.all
\* unless it is settled already
SubLoadFails(l, n) ==
    /\ loads' = [loads EXCEPT
                   ![l].stage[n] = "failed",
                   ![l].promise = IF @ = "pending" THEN "rejected" ELSE @,
                   ![l].err = IF loads[l].promise = "pending"
                              THEN ErrLoad(Url(loads[l].defs[n].path)) ELSE @]
    /\ call' = NoCall
    /\ UNCHANGED <<ac, audioVars, tableVars, instVars, now, lifeVars>>

\* fetch rejected, or answered without response.ok
FetchFails(l, n) ==
    /\ loads[l].stage[n] = "fetch"
    /\ SubLoadFails(l, n)

\* decodeAudioData rejected
DecodeFails(l, n) ==
    /\ loads[l].stage[n] = "decode"
    /\ SubLoadFails(l, n)

\* decodeAudioData fulfilled: #sounds.set(name, ...), and Promise.all is
\* fulfilled in the same task when this was the last element
DecodeOk(l, n) ==
    /\ loads[l].stage[n] = "decode"
    /\ sobjs' = Append(sobjs, NewSound(n, loads[l].defs[n]))
    /\ sounds' = [sounds EXCEPT ![n] = Len(sobjs) + 1]
    /\ LET stage == [loads[l].stage EXCEPT ![n] = "stored"]
       IN loads' = [loads EXCEPT
                      ![l].stage = stage,
                      ![l].obj[n] = Len(sobjs) + 1,
                      ![l].promise = IF @ = "pending" /\ AllFulfilled(stage)
                                     THEN "resolved" ELSE @]
    /\ call' = NoCall
    /\ UNCHANGED <<ac, audioVars, instVars, now, lifeVars>>

\* getSoundBuffer reads the table only
GetSoundBuffer(name) ==
    /\ call' = [Called("getSoundBuffer",
                       IF sounds[name] = 0 THEN ErrNoSound ELSE "buffer")
                  EXCEPT !.name = name]
    /\ UNCHANGED <<ac, audioVars, tableVars, instVars, loads, now, lifeVars>>

\* ------------------------------------------------------------ playback
\* source.stop(when): the last call decides the stop time, unless the source
\* has stopped already, and then the call changes nothing
SourceStop(inst, when) ==
    [inst EXCEPT !.stopCalls = @ + 1,
                 !.stopSet = TRUE,
                 !.stopAt = IF inst.stopSet /\ inst.stopAt <= now THEN @ ELSE when]

\* a cap test that lets one instance too many in
CapReachedLate(sound) == Len(sound.instances) > sound.maxSources

\* the cap test of play()
CapReached(sound) == Len(sound.instances) >= sound.maxSources

\* an eviction that picks the newest instance
Newest(sound) == sound.instances[Len(sound.instances)]

\* the instance play() evicts
Oldest(sound) == sound.instances[1]

\* the instance object play() builds, with its gain and source nodes
NewInstance(s, name, tag, loop, fadeIn, cb) ==
    [sobj |-> s, name |-> name, tag |-> tag, loop |-> loop, cb |-> cb,
     stopping |-> FALSE, startTime |-> now,
     stopCalls |-> 0, stopSet |-> FALSE, stopAt |-> 0,
     ramp |-> IF fadeIn <= 0 THEN "none" ELSE "in",
     rampEnd |-> IF fadeIn <= 0 THEN 0 ELSE now + fadeIn,
     target |-> sobjs[s].baseVolume,
     gainConn |-> TRUE, fired |-> FALSE, cbCalls |-> 0]

PlayCall(name, tag, stopOldest, ret, inst) ==
    [NoCall EXCEPT !.op = "play", !.name = name, !.tag = tag,
                   !.stopOldest = stopOldest, !.ret = ret, !.inst = inst]

\* a play() that answers an unknown name with null
PlayExitQuiet(name, stopOldest) ==
    IF GetAudioContextFails THEN ErrNotInit
    ELSE IF sounds[name] = 0 THEN "null"
    ELSE IF sobjs[sounds[name]].maxSources <= 0 THEN "null"
    ELSE IF Len(sobjs[sounds[name]].instances) >= sobjs[sounds[name]].maxSources
            /\ ~stopOldest THEN "null"
    ELSE ""

\* how play() leaves before it builds an instance: the error it throws, or
\* "null"; "" when it goes on
PlayExit(name, stopOldest) ==
    IF GetAudioContextFails THEN ErrNotInit
    ELSE IF sounds[name] = 0 THEN ErrNoSound
    ELSE IF sobjs[sounds[name]].maxSources <= 0 THEN "null"
    ELSE IF CapReached(sobjs[sounds[name]]) /\ ~stopOldest THEN "null"
    ELSE ""

Play(name, tag, loop, fadeIn, stopOldest, cb) ==
    LET s == sounds[name]
    IN /\ UNCHANGED <<ac, audioVars, sounds, loads, now, lifeVars>>
       /\ IF PlayExit(name, stopOldest) # ""
          THEN /\ call' = PlayCall(name, tag, stopOldest, PlayExit(name, stopOldest), 0)
               /\ UNCHANGED <<sobjs, insts, soundInstances>>
          ELSE LET i == Len(insts) + 1
                   evicted == IF CapReached(sobjs[s])
                              THEN [insts EXCEPT ![Oldest(sobjs[s])] =
                                        SourceStop(@, now)]
                              ELSE insts
               IN /\ Len(insts) < MaxInst
                  /\ insts' = Append(evicted,
                                     NewInstance(s, name, tag, loop, fadeIn, cb))
                  /\ sobjs' = [sobjs EXCEPT ![s].instances = Append(@, i)]
                  /\ soundInstances' = Append(soundInstances, i)
                  /\ call' = PlayCall(name, tag, stopOldest, "instance", i)

\* source.onended is dispatched once, after the source has stopped: at its stop
\* time, or at the end of the buffer when it does not loop
Ended(i) ==
    /\ ~insts[i].fired
    /\ \/ insts[i].stopSet /\ insts[i].stopAt <= now
       \/ ~insts[i].loop

\* a filter that forgets the tag
MatchesAnyTag(inst, tag) == ~inst.stopping

\* a filter that forgets the stopping flag
MatchesStopping(inst, tag) == ~(tag # TagNull /\ inst.tag # tag)

\* the filter of stop(): the instances the loop does not skip
Matches(inst, tag) == ~(inst.stopping \/ (tag # TagNull /\ inst.tag # tag))

\* what stop() does to one matching instance
StopOne(inst, fadeOut) ==
    IF fadeOut <= 0
    THEN SourceStop([inst EXCEPT !.stopping = TRUE], now)
    ELSE SourceStop([inst EXCEPT !.stopping = TRUE,
                                 !.ramp = "out",
                                 !.rampEnd = now + fadeOut], now + fadeOut)

\* what an endedCallback that calls AudioSystem.play(name) builds on
Replays(i) == insts[i].cb = "plays" /\ PlayExit(insts[i].name, TRUE) = ""

\* the instances once the endedCallback of instance i has run: "plays" calls
\* play(name) for the sound of i, "stops" calls stop()
CallbackInsts(i) ==
    LET s == sounds[insts[i].name]
    IN IF Replays(i)
       THEN Append(IF CapReached(sobjs[s])
                   THEN [insts EXCEPT ![Oldest(sobjs[s])] = SourceStop(@, now)]
                   ELSE insts,
                   NewInstance(s, insts[i].name, TagNull, FALSE, 0, "none"))
       ELSE IF insts[i].cb = "stops"
       THEN [k \in 1..Len(insts) |->
               IF Contains(soundInstances, k) /\ Matches(insts[k], TagNull)
               THEN StopOne(insts[k], 0)
               ELSE insts[k]]
       ELSE insts

\* the instance lists once the endedCallback of instance i has run
CallbackSobjs(i) ==
    IF Replays(i)
    THEN [sobjs EXCEPT ![sounds[insts[i].name]].instances = Append(@, Len(insts) + 1)]
    ELSE sobjs
CallbackSoundInstances(i) ==
    IF Replays(i) THEN Append(soundInstances, Len(insts) + 1) ELSE soundInstances

\* the onended handler: the endedCallback runs first, and one that throws leaves
\* the rest undone
OnEnded(i) ==
    /\ i \in 1..Len(insts)
    /\ Ended(i)
    /\ Replays(i) => Len(insts) < MaxInst
    /\ call' = NoCall
    /\ IF insts[i].cb = "throws"
       THEN /\ insts' = [insts EXCEPT ![i].fired = TRUE, ![i].cbCalls = @ + 1]
            /\ UNCHANGED <<sobjs, soundInstances>>
       ELSE /\ insts' = [CallbackInsts(i) EXCEPT
                           ![i].fired = TRUE,
                           ![i].cbCalls = IF insts[i].cb = "none" THEN @ ELSE @ + 1,
                           ![i].gainConn = FALSE]
            /\ sobjs' = [CallbackSobjs(i) EXCEPT ![insts[i].sobj].instances = Remove(@, i)]
            /\ soundInstances' = Remove(CallbackSoundInstances(i), i)
    /\ UNCHANGED <<ac, audioVars, sounds, loads, now, lifeVars>>

StopCall(tag, fadeOut, ret) ==
    [NoCall EXCEPT !.op = "stop", !.tag = tag, !.fade = fadeOut, !.ret = ret]

Stop(tag, fadeOut) ==
    /\ UNCHANGED <<ac, audioVars, tableVars, soundInstances, loads, now, lifeVars>>
    /\ IF GetAudioContextFails
       THEN /\ call' = StopCall(tag, fadeOut, ErrNotInit)
            /\ UNCHANGED insts
       ELSE /\ call' = StopCall(tag, fadeOut, "ok")
            /\ insts' = [i \in 1..Len(insts) |->
                           IF Contains(soundInstances, i) /\ Matches(insts[i], tag)
                           THEN StopOne(insts[i], fadeOut)
                           ELSE insts[i]]

\* the audio clock advances
Tick ==
    /\ now < MaxTime
    /\ now' = now + 1
    /\ call' = NoCall
    /\ UNCHANGED <<ac, audioVars, tableVars, instVars, loads, lifeVars>>

\* ------------------------------------------------------------ behaviours
ObjTags == {<<"obj", i>> : i \in 1..Len(insts)}

\* one step of any pending sub-load
SubLoadStep ==
    \E l \in 1..Len(loads) : \E n \in DOMAIN loads[l].defs :
        FetchOk(l, n) \/ FetchFails(l, n) \/ DecodeOk(l, n) \/ DecodeFails(l, n)

\* The cap: untagged instances of both sounds, stop with and without fade.
Next ==
    \/ CreateAudioContext(0, "running")
    \/ \E defs \in DefChoices : Len(loads) < OneLoad /\ AsyncLoadSounds(defs)
    \/ SubLoadStep
    \/ \E name \in Names, stopOldest \in BOOLEAN :
          Play(name, TagNull, FALSE, 0, stopOldest, "none")
    \/ \E fadeOut \in Fades : Stop(TagNull, fadeOut)
    \/ \E i \in 1..Len(insts) : OnEnded(i)
    \/ Tick

Spec == Init /\ [][Next]_vars

\* Stopping: tagged, looping and fading instances of one sound, stop with
\* every kind of tag.
NextStop ==
    \/ CreateAudioContext(0, "running")
    \/ Len(loads) < OneLoad /\ AsyncLoadSounds([n \in {"a"} |-> Def(n, MaxCap)])
    \/ SubLoadStep
    \/ \E tag \in PlayTags :
          Play("a", tag, FALSE, 0, TRUE, "none")
    \/ \E tag \in PlayTags \cup ObjTags, fadeOut \in Fades : Stop(tag, fadeOut)
    \/ \E i \in 1..Len(insts) : OnEnded(i)
    \/ Tick

SpecStop == Init /\ [][NextStop]_vars

\* Ending: instances with every kind of endedCallback.
NextEnded ==
    \/ CreateAudioContext(0, "running")
    \/ Len(loads) < OneLoad /\ AsyncLoadSounds([n \in {"a"} |-> Def(n, 1)])
    \/ SubLoadStep
    \/ \E loop \in BOOLEAN, cb \in Callbacks :
          Play("a", TagNull, loop, 0, TRUE, cb)
    \/ \E fadeOut \in Fades : Stop(TagNull, fadeOut)
    \/ \E i \in 1..Len(insts) : OnEnded(i)
    \/ Tick

SpecEnded == Init /\ [][NextEnded]_vars

\* Loading: concurrent asyncLoadSounds calls, with plays in between.
NextLoad ==
    \/ CreateAudioContext(0, "running")
    \/ \E defs \in DefChoices : Len(loads) < MaxLoads /\ AsyncLoadSounds(defs)
    \/ SubLoadStep
    \/ \E name \in Names : Play(name, TagNull, FALSE, 0, TRUE, "none")
    \/ \E i \in 1..Len(insts) : OnEnded(i)

SpecLoad == Init /\ [][NextLoad]_vars

\* The context and the master gain: every public call before and after
\* createAudioContext.
NextCtx ==
    \/ GetAudioContext
    \/ IsAudioContextRunning
    \/ \E given \in {0, 2} : CreateAudioContext(given, "running")
    \/ \E v \in Volumes : SetGlobalVolume(v)
    \/ Len(loads) < OneLoad /\ AsyncLoadSounds([n \in {"a"} |-> Def(n, 1)])
    \/ SubLoadStep
    \/ \E fadeIn \in Fades : Play("a", TagNull, FALSE, fadeIn, TRUE, "none")
    \/ Stop(TagNull, 0)
    \/ \E i \in 1..Len(insts) : OnEnded(i)
    \/ \E name \in Names : GetSoundBuffer(name)

SpecCtx == Init /\ [][NextCtx]_vars

\* Fading: instances that fade in, stop with and without fade-out.
NextFade ==
    \/ CreateAudioContext(0, "running")
    \/ Len(loads) < OneLoad /\ AsyncLoadSounds([n \in {"a"} |-> Def(n, MaxCap)])
    \/ SubLoadStep
    \/ \E loop \in BOOLEAN, fadeIn \in Fades :
          Play("a", TagNull, loop, fadeIn, TRUE, "none")
    \/ \E fadeOut \in Fades : Stop(TagNull, fadeOut)
    \/ \E i \in 1..Len(insts) : OnEnded(i)
    \/ Tick

SpecFade == Init /\ [][NextFade]_vars

\* The life cycle once the context exists: visibility changes, gestures and
\* the settling of the suspend and resume calls they make.
NextLife ==
    \/ \E st \in AcStates : CreateAudioContext(0, st)
    \/ HandleLoad
    \/ ac # 0 /\ VisibilityChange
    \/ UserGesture
    \/ \E ok \in BOOLEAN : ResumeSettles(ok)
    \/ SuspendSettles
    \/ \E v \in Volumes : SetGlobalVolume(v)

SpecLife == Init /\ [][NextLife]_vars

\* The same with the events that arrive before createAudioContext.
NextBoot ==
    \/ \E given \in {0, 2}, st \in AcStates : CreateAudioContext(given, st)
    \/ HandleLoad
    \/ VisibilityChange
    \/ UserGesture
    \/ \E ok \in BOOLEAN : ResumeSettles(ok)
    \/ SuspendSettles
    \/ \E v \in Volumes : SetGlobalVolume(v)

SpecBoot == Init /\ [][NextBoot]_vars

\* Re-entrancy: endedCallbacks that return, throw, or call play() or stop().
NextReenter ==
    \/ CreateAudioContext(0, "running")
    \/ \E cap \in 1..MaxCap :
          Len(loads) < OneLoad /\ AsyncLoadSounds([n \in {"a"} |-> Def(n, cap)])
    \/ SubLoadStep
    \/ \E cb \in (Callbacks \cup Reentrant) \ {"none"} :
          Play("a", TagNull, FALSE, 0, TRUE, cb)
    \/ Stop(TagNull, 0)
    \/ \E i \in 1..Len(insts) : OnEnded(i)

SpecReenter == Init /\ [][NextReenter]_vars

\* ------------------------------------------------------------ properties
Live(i) == Contains(soundInstances, i)
ListOf(s) == sobjs[s].instances
InList(s, i) == Contains(sobjs[s].instances, i)
\* instances of Sound s on whose source no stop was invoked
Unstopped(ii, s) == {i \in 1..Len(ii) : ii[i].sobj = s /\ ii[i].stopCalls = 0}
PlayedOk == call.op = "play" /\ call.ret = "instance"

\* C1: from an empty instance list of a sound with maxSources = N >= 1, each of
\* N+1 consecutive play() calls with stopOldestIfMax = true returns an
\* instance; the list grows unstopped up to N, and the call made at N leaves
\* exactly N instances unstopped and the first of the list stopped at once.
\* Stated per call: on a list of k <= N unstopped instances.
C1_EvictOldest ==
    [][\A s \in 1..Len(sobjs) :
         (/\ call'.op = "play" /\ call'.stopOldest
          /\ ac # 0 /\ sounds[call'.name] = s
          /\ sobjs[s].maxSources >= 1
          /\ Len(ListOf(s)) <= sobjs[s].maxSources
          /\ \A k \in 1..Len(ListOf(s)) : insts[ListOf(s)[k]].stopCalls = 0)
         => /\ call'.ret = "instance"
            /\ call'.inst = Len(insts) + 1
            /\ sobjs'[s].instances = Append(ListOf(s), call'.inst)
            /\ IF Len(ListOf(s)) < sobjs[s].maxSources
               THEN \A k \in 1..Len(sobjs'[s].instances) :
                       insts'[sobjs'[s].instances[k]].stopCalls = 0
               ELSE /\ Cardinality({k \in 1..Len(sobjs'[s].instances) :
                          insts'[sobjs'[s].instances[k]].stopCalls = 0})
                       = sobjs[s].maxSources
                    /\ insts'[ListOf(s)[1]].stopCalls = 1
                    /\ insts'[ListOf(s)[1]].stopSet
                    /\ insts'[ListOf(s)[1]].stopAt = now]_vars

\* the call made at N has returned: N+1 in the list, the first one stopped
C1_Witness ==
    /\ PlayedOk /\ call.stopOldest
    /\ \E s \in 1..Len(sobjs) :
         /\ sobjs[s].maxSources >= 1
         /\ Len(ListOf(s)) = sobjs[s].maxSources + 1
         /\ ListOf(s)[Len(ListOf(s))] = call.inst
         /\ insts[ListOf(s)[1]].stopCalls = 1
         /\ \A k \in 2..Len(ListOf(s)) : insts[ListOf(s)[k]].stopCalls = 0

\* C2: for every loaded sound, the instances on which no stop was invoked and
\* whose end event has not fired number at most maxSources.
C2_AtMostMaxSources ==
    \A n \in Names :
        sounds[n] # 0 =>
            Cardinality({i \in Unstopped(insts, sounds[n]) : ~insts[i].fired})
                <= sobjs[sounds[n]].maxSources

\* C3: play() with stopOldestIfMax = false at the cap, or on a sound whose
\* maxSources is 0, returns null and changes no instance and no list.
C3_NullLeavesAll ==
    [][(/\ call'.op = "play"
        /\ ac # 0 /\ sounds[call'.name] # 0
        /\ \/ sobjs[sounds[call'.name]].maxSources = 0
           \/ /\ ~call'.stopOldest
              /\ Len(ListOf(sounds[call'.name])) >= sobjs[sounds[call'.name]].maxSources)
       => /\ call'.ret = "null"
          /\ call'.inst = 0
          /\ UNCHANGED <<insts, soundInstances, sobjs, sounds>>]_vars

\* play() has returned null at a cap that is reached
C3_Witness ==
    /\ call.op = "play" /\ call.ret = "null" /\ ~call.stopOldest
    /\ sounds[call.name] # 0
    /\ sobjs[sounds[call.name]].maxSources >= 1
    /\ Len(ListOf(sounds[call.name])) = sobjs[sounds[call.name]].maxSources

\* C4: with the context created, play() of a name that is no key of the sound
\* table raises the lookup error, never returns null, and creates no instance.
C4_UnknownNameRaises ==
    [][(call'.op = "play" /\ ac # 0 /\ sounds[call'.name] = 0)
       => /\ call'.ret = ErrNoSound
          /\ call'.inst = 0
          /\ UNCHANGED <<insts, soundInstances, sobjs, sounds>>]_vars

\* play() has raised on a name that is not loaded, beside a sound that is
C4_Witness ==
    /\ call.op = "play" /\ call.ret = ErrNoSound
    /\ ac # 0 /\ sounds[call.name] = 0
    /\ \E n \in Names : sounds[n] # 0

\* C5: before createAudioContext has succeeded every other call raises the
\* not-initialised error; the first createAudioContext succeeds; a later one
\* raises the already-created error, and getAudioContext keeps returning the
\* first context.
C5_InitProtocol ==
    [][/\ (ac = 0 /\ call'.op \in {"getAudioContext", "play", "stop", "asyncLoadSounds",
                                   "setGlobalVolume", "isAudioContextRunning"})
          => (call'.ret = ErrNotInit /\ ac' = 0)
       /\ (ac = 0 /\ call'.op = "createAudioContext")
          => (call'.ret = "ok" /\ ac' # 0)
       /\ (ac # 0 /\ call'.op = "createAudioContext")
          => call'.ret = ErrCreated
       /\ ac # 0 => ac' = ac
       /\ (ac # 0 /\ call'.op = "getAudioContext")
          => (call'.ret = "ok" /\ call'.ctx = ac)]_vars

\* a second createAudioContext, with another context, has been refused
C5_Witness ==
    /\ call.op = "createAudioContext" /\ call.ret = ErrCreated
    /\ ac = 1

\* C6: once an instance's end handler has run, the endedCallback given was
\* invoked exactly once, and the instance is in neither its sound's instance
\* list nor the global instance list.
C6_EndedOnceAndGone ==
    \A i \in 1..Len(insts) :
        insts[i].fired =>
            /\ insts[i].cbCalls = (IF insts[i].cb = "none" THEN 0 ELSE 1)
            /\ ~InList(insts[i].sobj, i)
            /\ ~Live(i)

\* C7: stop(tag, fadeOutSeconds) marks exactly the live, not yet stopping
\* instances that match the filter, invokes their source stop for now (no
\* fade) or for now + fadeOutSeconds with a ramp to then, leaves every other
\* instance as it was, and removes none from a list.
C7_StopMarksMatching ==
    [][(call'.op = "stop" /\ ac # 0)
       => /\ call'.ret = "ok"
          /\ UNCHANGED <<soundInstances, sobjs, sounds>>
          /\ Len(insts') = Len(insts)
          /\ \A i \in 1..Len(insts) :
               IF /\ Live(i) /\ ~insts[i].stopping
                  /\ (call'.tag = TagNull \/ insts[i].tag = call'.tag)
               THEN /\ insts'[i].stopping
                    /\ insts'[i].stopCalls = insts[i].stopCalls + 1
                    /\ insts'[i].stopSet
                    /\ (~(insts[i].stopSet /\ insts[i].stopAt <= now))
                          => insts'[i].stopAt =
                                (IF call'.fade <= 0 THEN now ELSE now + call'.fade)
                    /\ IF call'.fade <= 0
                       THEN /\ insts'[i].ramp = insts[i].ramp
                            /\ insts'[i].rampEnd = insts[i].rampEnd
                       ELSE /\ insts'[i].ramp = "out"
                            /\ insts'[i].rampEnd = now + call'.fade
               ELSE insts'[i] = insts[i]]_vars

\* stop('music', fade) has marked a matching instance and left two others alone:
\* one with another tag, one with none
C7_Witness ==
    /\ call.op = "stop" /\ call.ret = "ok" /\ call.tag \in StrTags /\ call.fade > 0
    /\ \E i, j, k \in 1..Len(insts) :
         /\ Live(i) /\ Live(j) /\ Live(k)
         /\ insts[i].tag = call.tag /\ insts[i].stopping
         /\ insts[i].stopAt = now + call.fade /\ insts[i].ramp = "out"
         /\ insts[j].tag \in StrTags \ {call.tag} /\ ~insts[j].stopping
         /\ insts[k].tag = TagNull /\ ~insts[k].stopping

\* C8: stop(instance), given the object that play() returned, marks that
\* instance stopping and stops its source, and touches no other instance.
C8_StopInstanceObject ==
    [][\A i \in 1..Len(insts) :
         (/\ call'.op = "stop" /\ ac # 0
          /\ call'.tag = <<"obj", i>>
          /\ Live(i) /\ ~insts[i].stopping)
         => /\ insts'[i].stopping
            /\ insts'[i].stopCalls = insts[i].stopCalls + 1
            /\ \A j \in 1..Len(insts) : j # i => insts'[j] = insts[j]]_vars

\* C9: once the context exists the master gain holds the volume last set and is
\* connected to the destination exactly when that volume is above zero, the
\* #gainConnected flag saying the same; only setGlobalVolume changes either,
\* and it changes no instance and no list.
C9_GainFollowsVolume ==
    [][/\ (call'.op = "setGlobalVolume" /\ ac # 0)
          => /\ call'.ret = "ok"
             /\ gainValue' = call'.vol
             /\ gainWired' = (call'.vol > 0)
             /\ UNCHANGED <<insts, soundInstances, sobjs, sounds>>
       /\ (call'.op # "setGlobalVolume" /\ ac # 0)
          => UNCHANGED <<gainValue, gainWired>>
       /\ ac' # 0
          => /\ gainWired' = (gainValue' > 0)
             /\ gainConnected' = (IF gainWired' THEN "true" ELSE "false")]_vars

\* setGlobalVolume(v > 0) has returned with instances playing: connected at v
C9_Witness ==
    /\ call.op = "setGlobalVolume" /\ call.ret = "ok" /\ call.vol > 0
    /\ gainWired /\ gainValue = call.vol
    /\ Len(soundInstances) > 0

\* the promise of load l is settled in this step
Resolves(l) == loads[l].promise = "pending" /\ loads'[l].promise = "resolved"
Rejects(l) == loads[l].promise = "pending" /\ loads'[l].promise = "rejected"

\* what C10 says of a rejection: a failed sub-load rejects the promise for
\* good, with the load error that names its URL
RejectsWithUrl ==
    \A l \in 1..Len(loads) :
        /\ (\E n \in DOMAIN loads[l].defs : loads'[l].stage[n] = "failed")
              => loads'[l].promise = "rejected"
        /\ Rejects(l)
              => \E n \in DOMAIN loads[l].defs :
                    /\ loads[l].stage[n] # "failed" /\ loads'[l].stage[n] = "failed"
                    /\ loads'[l].err = ErrLoad(Url(loads[l].defs[n].path))
        /\ loads[l].promise = "rejected"
              => (loads'[l].promise = "rejected" /\ loads'[l].err = loads[l].err)

\* C10 as claimed: when the promise resolves the table holds, for every name
\* of defs, an entry with that definition's maxSources and baseVolume and an
\* empty instance list; a failed sub-load rejects it with the URL.
C10_ResolvedTableAsDefined ==
    [][/\ \A l \in 1..Len(loads) :
            Resolves(l) =>
                \A n \in DOMAIN loads[l].defs :
                    /\ sounds'[n] # 0
                    /\ sobjs'[sounds'[n]].maxSources = loads[l].defs[n].maxSources
                    /\ sobjs'[sounds'[n]].baseVolume = loads[l].defs[n].baseVolume
                    /\ sobjs'[sounds'[n]].instances = <<>>
       /\ RejectsWithUrl]_vars

\* C10 as amended: when the promise resolves every sub-load has stored its
\* Sound, with the definition's maxSources and baseVolume and, when stored,
\* an empty instance list; the table holds an entry for every name of defs,
\* which is that Sound unless another asyncLoadSounds call has overwritten the
\* name since; a failed sub-load rejects the promise with the URL.
C10_ResolvedAllStored ==
    [][/\ \A l \in 1..Len(loads) :
            Resolves(l) =>
                \A n \in DOMAIN loads[l].defs :
                    /\ loads'[l].stage[n] = "stored"
                    /\ loads'[l].obj[n] \in 1..Len(sobjs')
                    /\ sobjs'[loads'[l].obj[n]].name = n
                    /\ sobjs'[loads'[l].obj[n]].maxSources = loads[l].defs[n].maxSources
                    /\ sobjs'[loads'[l].obj[n]].baseVolume = loads[l].defs[n].baseVolume
                    /\ sounds'[n] # 0
                    /\ \/ sounds'[n] = loads'[l].obj[n]
                       \/ \E m \in 1..Len(loads) :
                            /\ m # l /\ n \in DOMAIN loads[m].defs
                            /\ loads'[m].obj[n] = sounds'[n]
       /\ \A o \in (Len(sobjs) + 1)..Len(sobjs') : sobjs'[o].instances = <<>>
       /\ RejectsWithUrl]_vars

\* a load of two names has resolved after a play() on the first one stored
\* and after another load overwrote a name
C10_Witness ==
    \E l \in 1..Len(loads) :
        /\ loads[l].promise = "resolved"
        /\ Cardinality(DOMAIN loads[l].defs) = 2
        /\ \E n \in DOMAIN loads[l].defs : sobjs[loads[l].obj[n]].instances # <<>>
        /\ \E n \in DOMAIN loads[l].defs : sounds[n] # loads[l].obj[n]

\* C11: asyncLoadSounds fails fast and rolls nothing back: the step in which a
\* sub-load fails rejects the promise whatever the other sub-loads are doing,
\* and changes neither the table nor the other sub-loads; an entry of the
\* table is never removed and stays playable; a sub-load in flight after the
\* rejection can still go on, and its store adds its sound to the table.
C11_FailFastNoRollback ==
    [][/\ \A l \in 1..Len(loads) : \A n \in DOMAIN loads[l].defs :
            /\ (loads[l].stage[n] # "failed" /\ loads'[l].stage[n] = "failed")
                  => /\ loads'[l].promise = "rejected"
                     /\ UNCHANGED <<sounds, sobjs>>
                     /\ \A m \in DOMAIN loads[l].defs \ {n} :
                           loads'[l].stage[m] = loads[l].stage[m]
            /\ (loads[l].promise = "rejected" /\ loads[l].stage[n] = "fetch")
                  => ENABLED FetchOk(l, n)
            /\ (loads[l].promise = "rejected" /\ loads[l].stage[n] = "decode")
                  => ENABLED DecodeOk(l, n)
            /\ (/\ loads[l].promise = "rejected"
                /\ loads[l].stage[n] = "decode" /\ loads'[l].stage[n] = "stored")
                  => /\ sounds'[n] = Len(sobjs) + 1
                     /\ sobjs'[sounds'[n]] = NewSound(n, loads[l].defs[n])
       /\ \A n \in Names : sounds[n] # 0 => sounds'[n] # 0
       /\ (call'.op = "play" /\ ac # 0 /\ sounds[call'.name] # 0)
             => call'.ret \in {"instance", "null"}]_vars

\* a load of two names is rejected, the sub-load of "a" has failed, and the
\* sound of "b" is in the table and playing
C11_Witness ==
    \E l \in 1..Len(loads) :
        /\ loads[l].promise = "rejected"
        /\ DOMAIN loads[l].defs = {"a", "b"}
        /\ loads[l].stage["a"] = "failed"
        /\ loads[l].stage["b"] = "stored"
        /\ sounds["b"] = loads[l].obj["b"]
        /\ sobjs[sounds["b"]].instances # <<>>

Occurrences(s, x) == Cardinality({k \in 1..Len(s) : s[k] = x})

\* C12: every instance ever created is exactly once in its sound's instance
\* list and exactly once in the global instance list until its end handler
\* has run, and in neither list afterwards.
C12_BothListsOrNeither ==
    \A i \in 1..Len(insts) :
        /\ Occurrences(sobjs[insts[i].sobj].instances, i)
              = (IF insts[i].fired THEN 0 ELSE 1)
        /\ Occurrences(soundInstances, i) = (IF insts[i].fired THEN 0 ELSE 1)
        /\ \A s \in 1..Len(sobjs) :
              s # insts[i].sobj => Occurrences(sobjs[s].instances, i) = 0

\* C13: an instance is marked stopping as soon as a stop or a fade-out has
\* been initiated on it, by stop() or by the eviction of play(), and stop is
\* invoked on its source at most once.
C13_StoppingPreventsDoubleStop ==
    \A i \in 1..Len(insts) :
        /\ (insts[i].stopCalls >= 1 \/ insts[i].ramp = "out") => insts[i].stopping
        /\ insts[i].stopCalls <= 1

\* a fade of instance i is in progress
Fading(i, kind) ==
    /\ Live(i) /\ ~insts[i].fired
    /\ insts[i].ramp = kind /\ now < insts[i].rampEnd

\* C14 as claimed: a stop() without fade-out that matches an instance which is
\* fading in or fading out invokes stop on its source at once, so that it
\* halts before the end of the fade.
C14_StopAbortsAnyFade ==
    [][\A i \in 1..Len(insts) :
         (/\ call'.op = "stop" /\ ac # 0 /\ call'.fade <= 0
          /\ (call'.tag = TagNull \/ insts[i].tag = call'.tag)
          /\ (Fading(i, "in") \/ Fading(i, "out")))
         => /\ insts'[i].stopCalls = insts[i].stopCalls + 1
            /\ insts'[i].stopSet
            /\ insts'[i].stopAt <= now
            /\ insts'[i].stopAt < insts[i].rampEnd]_vars

\* C14 as amended: such a stop() aborts the fade of a matching instance that
\* is not yet stopping, which is one fading in; an instance that is fading
\* out is stopping already, and the call leaves it as it is.
C14_StopAbortsFadeIn ==
    [][\A i \in 1..Len(insts) :
         (/\ call'.op = "stop" /\ ac # 0 /\ call'.fade <= 0
          /\ (call'.tag = TagNull \/ insts[i].tag = call'.tag))
         => /\ (Fading(i, "in") /\ ~insts[i].stopping)
                  => /\ insts'[i].stopping
                     /\ insts'[i].stopCalls = insts[i].stopCalls + 1
                     /\ insts'[i].stopSet
                     /\ insts'[i].stopAt <= now
                     /\ insts'[i].stopAt < insts[i].rampEnd
            /\ Fading(i, "out")
                  => /\ insts[i].stopping
                     /\ insts'[i] = insts[i]]_vars

\* stop() without fade-out has returned: an instance that was fading in is
\* stopped for now, one that is fading out keeps its later stop time
C14_Witness ==
    /\ call.op = "stop" /\ call.ret = "ok" /\ call.fade <= 0
    /\ \E i, j \in 1..Len(insts) :
         /\ Live(i) /\ insts[i].ramp = "in" /\ now < insts[i].rampEnd
         /\ insts[i].stopping /\ insts[i].stopCalls = 1 /\ insts[i].stopAt = now
         /\ Fading(j, "out") /\ insts[j].stopCalls = 1 /\ insts[j].stopAt > now

\* a visibility gain or a delivered user gesture has just been handled
ResumeTrigger ==
    \/ call'.op = "visibilitychange" /\ ~hidden'
    \/ call'.op = "gesture" /\ loaded

\* C15: across visibility gains, user gestures and resume completions, at most
\* one resume call is pending and the in-flight flag is true exactly while one
\* is pending; the flag is cleared when the call settles, successfully or not,
\* and a trigger on a suspended context with no resume pending issues a new one.
C15_OneResumeInFlight ==
    /\ [](resumes <= 1 /\ (acResuming = "true" <=> resumes = 1))
    /\ [][/\ resumes' < resumes => acResuming' = "false" /\ resumes' = 0
          /\ (ResumeTrigger /\ ac # 0 /\ acState = "suspended" /\ resumes = 0)
               => (resumes' = 1 /\ acResuming' = "true" /\ issued' = issued + 1)
         ]_vars
\* a second resume is in flight on a context that the first one left suspended
C15_Witness ==
    /\ issued = 2 /\ resumes = 1 /\ acResuming = "true"
    /\ acState = "suspended" /\ suspends = 0
    /\ call.op \in {"gesture", "visibilitychange"}

\* C16: after createAudioContext, whenever the document is hidden and no suspend
\* or resume call is pending, the context is not in the running state.
C16_SuspendedWhileHidden ==
    (ac # 0 /\ hidden /\ resumes = 0 /\ suspends = 0) => acState # "running"

\* C17: every instance in the global instance list is also in the instance list
\* of the Sound now stored in the table under the name it was played with, also
\* after asyncLoadSounds has stored that name again.
C17_TableSoundListsLive ==
    \A k \in 1..Len(soundInstances) :
        LET i == soundInstances[k]
        IN /\ sounds[insts[i].name] # 0
           /\ InList(sounds[insts[i].name], i)

\* the end handler of instance i has just run
HandlerRan(i) == i \in 1..Len(insts) /\ ~insts[i].fired /\ insts'[i].fired

\* C18: whatever the endedCallback does (returns, throws, calls play() or
\* stop()), once the end handler has finished the instance's gain node is
\* disconnected and the instance is in neither its sound's instance list nor the
\* global instance list.
C18_CleanupWhateverCallback ==
    [][\A i \in 1..MaxInst :
          HandlerRan(i) =>
              /\ ~insts'[i].gainConn
              /\ ~Contains(soundInstances', i)
              /\ \A s \in 1..Len(sobjs') : ~Contains(sobjs'[s].instances, i)]_vars

PublicCalls == {"getAudioContext", "createAudioContext", "setGlobalVolume",
                "play", "stop", "asyncLoadSounds", "getSoundBuffer"}
Errors == {ErrNotInit, ErrCreated, ErrNoSound}

\* C19: a public call that raises an error changes none of the context, the
\* master gain and its connection state, the stored global volume, the sound
\* table and the instance lists.
C19_FailedCallChangesNothing ==
    [][(call'.op \in PublicCalls /\ call'.ret \in Errors)
          => UNCHANGED <<ac, audioVars, tableVars, instVars, loads>>]_vars

\* C20: a visibility change or a user gesture delivered while there is no
\* context raises no error in its handler, issues no suspend or resume, and
\* leaves the in-flight flag and all other state unchanged.
C20_EventsBeforeCreateHarmless ==
    [][(ac = 0 /\ call'.op \in {"visibilitychange", "gesture"})
          => /\ call'.ret = "ok"
             /\ UNCHANGED <<acResuming, resumes, suspends, issued, acState>>
             /\ UNCHANGED <<ac, audioVars, tableVars, instVars, loads>>]_vars

====
